---- MODULE Spec2Model ----
(***************************************************************************)
(* DMARC (RFC 7489) policy discovery, record parsing, identifier alignment *)
(* and decision logic of cloudflare/dmarc.                                 *)
(*                                                                         *)
(* Strings that name DNS domains are modelled as the tuple of their        *)
(* labels ("sub.example.com" is <<"sub","example","com">>); joining with   *)
(* "." is concatenation of tuples.  A TXT record is modelled by the tag    *)
(* list its text spells, plus a flag telling whether the tag-list grammar  *)
(* accepts the text.                                                       *)
(***************************************************************************)
EXTENDS Integers, Sequences, FiniteSets, TLC

VARIABLES
    \* ---- load_policy (src/lib.rs) ----
    pc,            \* position of the discovery future
    from_domain,   \* argument of load_policy
    lookups,       \* lookup_txt calls issued so far, in order
    responses,     \* resolver responses received so far, in order
    result,        \* value returned by load_policy
    \* ---- parse_policy called directly (src/lib.rs) ----
    parse_in,      \* arguments of the last direct call
    parse_out,     \* its return value
    \* ---- Policy::apply and DMARCResult (src/policy.rs, src/result.rs) ----
    policy,        \* the policy apply was called on
    ctx,           \* the PolicyContext it was given
    selected,      \* outcome of the Bernoulli trial of should_apply
    dmarc_result,  \* the DMARCResult built
    reject,        \* value returned by should_reject on dmarc_result
    align_in,      \* arguments of the last direct alignment check
    align_out      \* its return value

discoveryVars == <<pc, from_domain, lookups, responses, result>>
parseVars     == <<parse_in, parse_out>>
applyVars     == <<policy, ctx, selected, dmarc_result, reject, align_in, align_out>>
vars          == <<pc, from_domain, lookups, responses, result,
                   parse_in, parse_out,
                   policy, ctx, selected, dmarc_result, reject, align_in, align_out>>

(***************************************************************************)
(* Bounds of the model.                                                    *)
(***************************************************************************)
\* TXT records in one DNS answer
MaxRecords == 2
\* tags in one record handed to parse_policy directly
MaxTags == 3

(***************************************************************************)
(* Option values.                                                          *)
(***************************************************************************)
None == <<>>
Some(x) == <<x>>

(***************************************************************************)
(* Domain names (addr::parse_domain_name, Name::root).                     *)
(***************************************************************************)
\* labels the domain grammar rejects: the empty label and one with a space
IllegalLabels == {"", "x y"}

PublicSuffixes == {<<"com">>, <<"org">>, <<"co", "uk">>}

ValidDomain(d) ==
    /\ Len(d) >= 1
    /\ \A i \in 1..Len(d) : d[i] \notin IllegalLabels

\* the longest public suffix d ends with (the default rule "*" makes the
\* last label a suffix when no listed suffix matches)
SuffixLen(d) ==
    LET matching == {k \in 1..Len(d) : SubSeq(d, Len(d) - k + 1, Len(d)) \in PublicSuffixes}
    IN IF matching = {} THEN 1
       ELSE CHOOSE k \in matching : \A j \in matching : j <= k

\* src/dns.rs get_root_domain_name: the registrable (organizational) domain,
\* None when the name does not parse or is no more than a public suffix
get_root_domain_name(d) ==
    IF ValidDomain(d)
    THEN IF Len(d) > SuffixLen(d)
         THEN Some(SubSeq(d, Len(d) - SuffixLen(d), Len(d)))
         ELSE None
    ELSE None

DNS_SUBDOMAIN == "_dmarc"

\* format!("{}.{}", DNS_SUBDOMAIN, domain)
DmarcName(d) == <<DNS_SUBDOMAIN>> \o d

(***************************************************************************)
(* Errors (src/errors.rs) and results.                                     *)
(***************************************************************************)
Err(e, a) == [kind |-> "Err", err |-> e, arg |-> a]
Ok(v) == [kind |-> "Ok", value |-> v]

PolicyParseError(a)    == Err("PolicyParseError", a)
MissingRequiredTag(t)  == Err("MissingRequiredTag", t)
IncompatibleVersion(v) == Err("IncompatibleVersion", v)
UnknownInternalError(a) == Err("UnknownInternalError", a)

(***************************************************************************)
(* Tag converters (src/parser.rs).                                         *)
(***************************************************************************)
Tag(n, v) == [name |-> n, value |-> v]

\* parser::parse: the tag list of the record, or the grammar's diagnostic
parse(record) ==
    IF record.ok THEN Ok(record.tags) ELSE PolicyParseError("tag-list")

Alignement_default == "Relaxed"

parse_alignement_mode(input) ==
    CASE input = "r" -> "Relaxed"
      [] input = "s" -> "Strict"
      [] OTHER -> Alignement_default

parse_receiver_action(input) ==
    CASE input = "none" -> Ok("None")
      [] input = "quarantine" -> Ok("Quarantine")
      [] input = "reject" -> Ok("Reject")
      [] OTHER -> PolicyParseError(input)

\* the characters of the pct values the model publishes
Chars(s) ==
    CASE s = "0" -> <<"0">>
      [] s = "67" -> <<"6", "7">>
      [] s = "13" -> <<"1", "3">>
      [] s = "100" -> <<"1", "0", "0">>
      [] s = "101" -> <<"1", "0", "1">>
      [] s = "77777" -> <<"7", "7", "7", "7", "7">>
      [] s = "-1" -> <<"-", "1">>
      [] s = "+5" -> <<"+", "5">>
      [] s = "abc" -> <<"a", "b", "c">>
      [] OTHER -> <<>>

Digits == {"0", "1", "2", "3", "4", "5", "6", "7", "8", "9"}

DigitValue(c) ==
    CASE c = "0" -> 0 [] c = "1" -> 1 [] c = "2" -> 2 [] c = "3" -> 3
      [] c = "4" -> 4 [] c = "5" -> 5 [] c = "6" -> 6 [] c = "7" -> 7
      [] c = "8" -> 8 [] c = "9" -> 9

RECURSIVE DecimalValue(_)
DecimalValue(cs) ==
    IF cs = <<>> THEN 0
    ELSE 10 * DecimalValue(SubSeq(cs, 1, Len(cs) - 1)) + DigitValue(cs[Len(cs)])

\* str::parse::<usize>: an optional "+" then one or more decimal digits
parse_usize(s) ==
    LET cs == Chars(s)
        ds == IF cs # <<>> /\ cs[1] = "+" THEN Tail(cs) ELSE cs
    IN IF ds # <<>> /\ \A i \in 1..Len(ds) : ds[i] \in Digits
       THEN Some(DecimalValue(ds))
       ELSE None

DefaultPct == 100

\* mutant: a parsed value above 100 is kept
parse_percentage_unclamped(input) ==
    LET value == parse_usize(input)
    IN IF value # None THEN value[1] ELSE DefaultPct

parse_percentage(input) ==
    LET value == parse_usize(input)
    IN IF value # None
       THEN IF value[1] > 100 THEN DefaultPct ELSE value[1]
       ELSE DefaultPct

(***************************************************************************)
(* Policy (src/policy.rs) and parse_policy (src/lib.rs).                   *)
(***************************************************************************)
Policy_new(action) ==
    [adkim |-> "Relaxed", aspf |-> "Relaxed", pct |-> 100, action |-> action]

\* mutant: the first occurrence of a name is kept
RECURSIVE tags_map_first_wins(_)
tags_map_first_wins(tags) ==
    IF tags = <<>> THEN <<>>
    ELSE LET m == tags_map_first_wins(SubSeq(tags, 1, Len(tags) - 1))
             t == tags[Len(tags)]
         IN [n \in (DOMAIN m) \cup {t.name} |-> IF n \in DOMAIN m THEN m[n] ELSE t.value]

\* the HashMap built from the tag list: a later insert of a name overwrites
RECURSIVE tags_map(_)
tags_map(tags) ==
    IF tags = <<>> THEN <<>>
    ELSE LET m == tags_map(SubSeq(tags, 1, Len(tags) - 1))
             t == tags[Len(tags)]
         IN [n \in (DOMAIN m) \cup {t.name} |-> IF n = t.name THEN t.value ELSE m[n]]

\* the tag the action is read from, once v has been checked; None when the
\* required tag is missing
\* mutant: the root rule reads p only
action_tag_root_ignores_sp(m, is_root) ==
    IF "p" \in DOMAIN m THEN Some(m["p"]) ELSE None

\* mutant: sp overrides p at every level
action_tag_sp_everywhere(m, is_root) ==
    IF "p" \in DOMAIN m
    THEN IF "sp" \in DOMAIN m THEN Some(m["sp"]) ELSE Some(m["p"])
    ELSE None

action_tag(m, is_root) ==
    IF is_root
    THEN IF "p" \in DOMAIN m
         THEN IF "sp" \in DOMAIN m THEN Some(m["sp"]) ELSE Some(m["p"])
         ELSE None
    ELSE IF "p" \in DOMAIN m THEN Some(m["p"]) ELSE None

\* mutant: the action tags are examined before the version
parse_policy_action_before_version(record, is_root) ==
    LET tags == parse(record)
    IN IF tags.kind = "Err" THEN tags
       ELSE LET m == tags_map(tags.value)
                a == action_tag(m, is_root)
            IN IF a = None THEN MissingRequiredTag("p")
               ELSE IF parse_receiver_action(a[1]).kind = "Err"
                    THEN parse_receiver_action(a[1])
               ELSE IF "v" \notin DOMAIN m THEN MissingRequiredTag("v")
               ELSE IF m["v"] # "DMARC1" THEN IncompatibleVersion(m["v"])
               ELSE LET p0 == Policy_new(parse_receiver_action(a[1]).value)
                        p1 == IF "adkim" \in DOMAIN m
                              THEN [p0 EXCEPT !.adkim = parse_alignement_mode(m["adkim"])]
                              ELSE p0
                        p2 == IF "aspf" \in DOMAIN m
                              THEN [p1 EXCEPT !.aspf = parse_alignement_mode(m["aspf"])]
                              ELSE p1
                        p3 == IF "pct" \in DOMAIN m
                              THEN [p2 EXCEPT !.pct = parse_percentage(m["pct"])]
                              ELSE p2
                    IN Ok(p3)

parse_policy(record, is_root) ==
    LET tags == parse(record)
    IN IF tags.kind = "Err" THEN tags
       ELSE LET m == tags_map(tags.value)
            IN IF "v" \notin DOMAIN m THEN MissingRequiredTag("v")
               ELSE IF m["v"] # "DMARC1" THEN IncompatibleVersion(m["v"])
               ELSE LET a == action_tag(m, is_root)
                    IN IF a = None THEN MissingRequiredTag("p")
                       ELSE LET action == parse_receiver_action(a[1])
                            IN IF action.kind = "Err" THEN action
                               ELSE LET p0 == Policy_new(action.value)
                                        p1 == IF "adkim" \in DOMAIN m
                                              THEN [p0 EXCEPT !.adkim = parse_alignement_mode(m["adkim"])]
                                              ELSE p0
                                        p2 == IF "aspf" \in DOMAIN m
                                              THEN [p1 EXCEPT !.aspf = parse_alignement_mode(m["aspf"])]
                                              ELSE p1
                                        p3 == IF "pct" \in DOMAIN m
                                              THEN [p2 EXCEPT !.pct = parse_percentage(m["pct"])]
                                              ELSE p2
                                    IN Ok(p3)

(***************************************************************************)
(* The resolver (src/dns.rs).                                              *)
(***************************************************************************)
\* TXT records a zone may publish under a _dmarc name
PublishedRecords ==
    { \* "v=DMARC1; p=none; pct=13;"
      [ok |-> TRUE, tags |-> <<Tag("v", "DMARC1"), Tag("p", "none"), Tag("pct", "13")>>],
      \* "v=DMARC1; p=reject; sp=quarantine"
      [ok |-> TRUE, tags |-> <<Tag("v", "DMARC1"), Tag("p", "reject"), Tag("sp", "quarantine")>>],
      \* "v=DMARC1; p=bad; sp=reject": p is not an action, sp is
      [ok |-> TRUE, tags |-> <<Tag("v", "DMARC1"), Tag("p", "bad"), Tag("sp", "reject")>>],
      \* "v=DMARC6; p=none"
      [ok |-> TRUE, tags |-> <<Tag("v", "DMARC6"), Tag("p", "none")>>],
      \* "v=DMARC1; p" : rejected by the tag-list grammar
      [ok |-> FALSE, tags |-> <<Tag("v", "DMARC1")>>],
      \* "p=quarantine; v=DMARC1": a policy that does not start with "v="
      [ok |-> TRUE, tags |-> <<Tag("p", "quarantine"), Tag("v", "DMARC1")>>] }

RECURSIVE SeqsUpTo(_, _)
SeqsUpTo(S, n) ==
    IF n = 0 THEN {<<>>}
    ELSE LET shorter == SeqsUpTo(S, n - 1)
         IN shorter \cup {Append(q, x) : q \in {r \in shorter : Len(r) = n - 1}, x \in S}

\* what the underlying resolver can answer to one TXT query
ResolverResponses ==
    {[kind |-> "Records", records |-> rs] : rs \in SeqsUpTo(PublishedRecords, MaxRecords)}
    \cup {[kind |-> "NoRecordsFound", records |-> <<>>],
          [kind |-> "TransportError", records |-> <<>>]}

\* mutant: every resolver error is reported as an empty answer
lookup_txt_swallows_errors(resp) ==
    IF resp.kind = "Records" THEN Ok(resp.records) ELSE Ok(<<>>)

\* TokioAsyncResolverWrapper::lookup_txt
lookup_txt(resp) ==
    CASE resp.kind = "Records" -> Ok(resp.records)
      [] resp.kind = "NoRecordsFound" -> Ok(<<>>)
      [] OTHER -> UnknownInternalError("failed to query DNS")

(***************************************************************************)
(* load_policy_with_resolver (src/lib.rs).                                 *)
(***************************************************************************)
\* record.starts_with("v=")
starts_with_v(record) ==
    /\ record.tags # <<>>
    /\ record.tags[1].name = "v"

NoReturn == [returned |-> FALSE, value |-> Ok(None)]
Return(v) == [returned |-> TRUE, value |-> v]

\* mutant: a record that fails to parse ends discovery with its error
RECURSIVE scan_abort_on_error(_, _)
scan_abort_on_error(records, is_root) ==
    IF records = <<>> THEN NoReturn
    ELSE IF starts_with_v(Head(records))
         THEN LET parsed == parse_policy(Head(records), is_root)
              IN IF parsed.kind = "Ok" THEN Return(Ok(Some(parsed.value)))
                 ELSE Return(parsed)
         ELSE scan_abort_on_error(Tail(records), is_root)

\* mutant: the last record that parses wins
RECURSIVE scan_last_wins(_, _)
scan_last_wins(records, is_root) ==
    IF records = <<>> THEN NoReturn
    ELSE LET rest == scan_last_wins(Tail(records), is_root)
         IN IF rest.returned THEN rest
            ELSE IF starts_with_v(Head(records))
                      /\ parse_policy(Head(records), is_root).kind = "Ok"
                 THEN Return(Ok(Some(parse_policy(Head(records), is_root).value)))
                 ELSE NoReturn

\* the for loop of the load! macro over the records of one answer
RECURSIVE scan(_, _)
scan(records, is_root) ==
    IF records = <<>> THEN NoReturn
    ELSE IF starts_with_v(Head(records))
         THEN LET parsed == parse_policy(Head(records), is_root)
              IN IF parsed.kind = "Ok" THEN Return(Ok(Some(parsed.value)))
                 ELSE scan(Tail(records), is_root)
         ELSE scan(Tail(records), is_root)

\* the load! macro once lookup_txt has resolved: `?` returns the error,
\* the loop returns the first policy, otherwise control falls through
load(answer, is_root) ==
    IF answer.kind = "Err" THEN Return(answer)
    ELSE scan(answer.value, is_root)

\* domains load_policy is called with
QueryDomains ==
    { <<"example", "com">>, <<"sub", "example", "com">>,
      <<"a", "b", "example", "co", "uk">>, <<"com">>, <<"x y", "com">> }

Lookup(d, is_root) == [name |-> DmarcName(d), is_root |-> is_root]

\* load_policy up to its first suspension: the resolver is built and the
\* TXT query for _dmarc.<from_domain> is issued
LoadPolicy(d) ==
    /\ pc = "idle"
    /\ from_domain' = d
    /\ lookups' = <<Lookup(d, FALSE)>>
    /\ pc' = "lookup_domain"
    /\ UNCHANGED <<responses, result>>
    /\ UNCHANGED <<parseVars, applyVars>>

\* load_policy when TokioAsyncResolver::tokio_from_system_conf fails
LoadPolicyNoResolver(d) ==
    /\ pc = "idle"
    /\ from_domain' = d
    /\ result' = UnknownInternalError("failed to create DNS resolver")
    /\ pc' = "done"
    /\ UNCHANGED <<lookups, responses>>
    /\ UNCHANGED <<parseVars, applyVars>>

\* the first query resolves; the code runs to the next query or to return
DomainLookupCompletes(resp) ==
    /\ pc = "lookup_domain"
    /\ responses' = Append(responses, resp)
    /\ LET r == load(lookup_txt(resp), FALSE)
           root == get_root_domain_name(from_domain)
       IN IF r.returned
          THEN /\ result' = r.value
               /\ pc' = "done"
               /\ UNCHANGED lookups
          ELSE IF root # None
               THEN /\ lookups' = Append(lookups, Lookup(root[1], TRUE))
                    /\ pc' = "lookup_root"
                    /\ UNCHANGED result
               ELSE /\ result' = Ok(None)
                    /\ pc' = "done"
                    /\ UNCHANGED lookups
    /\ UNCHANGED from_domain
    /\ UNCHANGED <<parseVars, applyVars>>

\* the query at the root domain resolves; the code runs to return
RootLookupCompletes(resp) ==
    /\ pc = "lookup_root"
    /\ responses' = Append(responses, resp)
    /\ LET r == load(lookup_txt(resp), TRUE)
       IN result' = IF r.returned THEN r.value ELSE Ok(None)
    /\ pc' = "done"
    /\ UNCHANGED <<from_domain, lookups>>
    /\ UNCHANGED <<parseVars, applyVars>>

NotReturned == [kind |-> "Pending"]

InitDiscovery ==
    /\ pc = "idle"
    /\ from_domain = <<>>
    /\ lookups = <<>>
    /\ responses = <<>>
    /\ result = NotReturned

(***************************************************************************)
(* parse_policy called directly on a record.                               *)
(***************************************************************************)
\* tags a record handed to parse_policy may carry
TagPool ==
    { Tag("v", "DMARC1"), Tag("v", "DMARC6"), Tag("v", "dmarc1"),
      Tag("p", "none"), Tag("p", "reject"), Tag("p", "Reject"),
      Tag("sp", "quarantine"), Tag("sp", "reject"), Tag("sp", "all"),
      Tag("adkim", "s"), Tag("adkim", "hein"), Tag("aspf", "s"),
      Tag("pct", "0"), Tag("pct", "67"), Tag("pct", "100"), Tag("pct", "101"),
      Tag("pct", "-1"), Tag("pct", "abc"),
      Tag("rua", "mailto:dmarcreports@example.com") }

\* records handed to parse_policy: every tag list up to MaxTags, and the
\* texts the tag-list grammar rejects after one tag
ParseRecords ==
    {[ok |-> TRUE, tags |-> ts] : ts \in SeqsUpTo(TagPool, MaxTags)}
    \cup {[ok |-> FALSE, tags |-> ts] : ts \in SeqsUpTo(TagPool, 1)}

NotCalled == [kind |-> "NotCalled"]

\* one direct call of parse_policy on the arguments held in parse_in
ParsePolicy ==
    /\ parse_in # NotCalled
    /\ parse_out = NotCalled
    /\ parse_out' = parse_policy(parse_in.record, parse_in.is_root)
    /\ UNCHANGED parse_in
    /\ UNCHANGED <<discoveryVars, applyVars>>

\* no direct call is made
InitParse ==
    /\ parse_in = NotCalled
    /\ parse_out = NotCalled

\* a direct call is about to be made
InitParseCall ==
    /\ parse_in \in [record : ParseRecords, is_root : BOOLEAN]
    /\ parse_out = NotCalled

(***************************************************************************)
(* Alignment and the decision engine (src/policy.rs), DMARCResult          *)
(* (src/result.rs).                                                        *)
(***************************************************************************)
\* the Relaxed arm of both checks: root_from == root_used_domain on Options
relaxed_aligned(from, used) ==
    get_root_domain_name(from) = get_root_domain_name(used)

check_spf_alignment(self, from, spf_result) ==
    IF self.aspf = "Relaxed"
    THEN relaxed_aligned(from, spf_result.domain_used)
    ELSE from = spf_result.domain_used

check_dkim_alignment(self, from, dkim_result) ==
    IF self.adkim = "Relaxed"
    THEN relaxed_aligned(from, dkim_result.domain_used)
    ELSE from = dkim_result.domain_used

\* mutant: the trial can go either way whatever pct is
should_apply_any(self) == {TRUE, FALSE}

\* Policy::should_apply: the outcomes the Bernoulli trial can have.
\* Bernoulli::new(pct / 100) is an error above 1, always true at 1, never
\* true at 0, and a fair draw in between
should_apply(self) ==
    IF self.pct > 100 THEN {TRUE}
    ELSE IF self.pct = 100 THEN {TRUE}
    ELSE IF self.pct = 0 THEN {FALSE}
    ELSE {TRUE, FALSE}

DMARCResult_neutral(p) == [value |-> "Neutral", policy |-> Some(p)]
DMARCResult_pass(p)    == [value |-> "Pass", policy |-> Some(p)]
DMARCResult_fail(p)    == [value |-> "Fail", policy |-> Some(p)]
DMARCResult_none       == [value |-> "None", policy |-> None]

\* mutant: any failing policy rejects, whatever its action
should_reject_any_fail(r) ==
    IF r.policy # None THEN r.value = "Fail" ELSE FALSE

should_reject(r) ==
    IF r.policy # None
    THEN r.value = "Fail" /\ r.policy[1].action = "Reject"
    ELSE FALSE

\* mutant: an aligned DKIM result that does not pass fails the message
apply_dkim_short_circuits(self, c, sample) ==
    IF ~sample THEN DMARCResult_neutral(self)
    ELSE IF check_dkim_alignment(self, c.from_domain, c.dkim_result)
         THEN IF c.dkim_result.summary = "pass"
              THEN DMARCResult_pass(self) ELSE DMARCResult_fail(self)
         ELSE IF check_spf_alignment(self, c.from_domain, c.spf_result)
                   /\ c.spf_result.value = "pass"
              THEN DMARCResult_pass(self) ELSE DMARCResult_fail(self)

\* mutant: the result carries a policy rebuilt from the action alone
apply_carries_default_policy(self, c, sample) ==
    IF ~sample THEN DMARCResult_neutral(Policy_new(self.action))
    ELSE IF check_dkim_alignment(self, c.from_domain, c.dkim_result)
              /\ c.dkim_result.summary = "pass"
         THEN DMARCResult_pass(Policy_new(self.action))
         ELSE IF check_spf_alignment(self, c.from_domain, c.spf_result)
                   /\ c.spf_result.value = "pass"
              THEN DMARCResult_pass(Policy_new(self.action))
              ELSE DMARCResult_fail(Policy_new(self.action))

\* Policy::apply, given the outcome of should_apply
apply(self, c, sample) ==
    IF ~sample THEN DMARCResult_neutral(self)
    ELSE IF check_dkim_alignment(self, c.from_domain, c.dkim_result)
              /\ c.dkim_result.summary = "pass"
         THEN DMARCResult_pass(self)
         ELSE IF check_spf_alignment(self, c.from_domain, c.spf_result)
                   /\ c.spf_result.value = "pass"
              THEN DMARCResult_pass(self)
              ELSE DMARCResult_fail(self)

\* domain strings of the From header and of the authentication results
MailDomains ==
    { <<"a", "com">>, <<"mail", "a", "com">>, <<"b", "com">>, <<"com">>,
      <<"x y", "com">>, <<"a", "", "com">> }

\* pct is a public field: a caller can hold a policy with any value
Policies ==
    [adkim : {"Relaxed", "Strict"}, aspf : {"Relaxed", "Strict"},
     action : {"None", "Quarantine", "Reject"}, pct : {0, 13, 100, 150}]

DKIMResults == [domain_used : MailDomains, summary : {"pass", "neutral", "fail"}]
SPFResults  == [domain_used : MailDomains, value : {"pass", "fail", "temperror", "Pass"}]
PolicyContexts ==
    [from_domain : MailDomains, dkim_result : DKIMResults, spf_result : SPFResults]

\* one call of Policy::apply on the policy and context held
Apply ==
    /\ policy # None
    /\ dmarc_result = None
    /\ \E sample \in should_apply(policy[1]) :
        /\ selected' = Some(sample)
        /\ dmarc_result' = Some(apply(policy[1], ctx[1], sample))
    /\ UNCHANGED <<policy, ctx, reject, align_in, align_out>>
    /\ UNCHANGED <<discoveryVars, parseVars>>

\* the caller found no policy and builds DMARCResult::none()
NoPolicy ==
    /\ policy = None
    /\ ctx # None
    /\ dmarc_result = None
    /\ dmarc_result' = Some(DMARCResult_none)
    /\ UNCHANGED <<policy, ctx, selected, reject, align_in, align_out>>
    /\ UNCHANGED <<discoveryVars, parseVars>>

ShouldReject ==
    /\ dmarc_result # None
    /\ reject = None
    /\ reject' = Some(should_reject(dmarc_result[1]))
    /\ UNCHANGED <<policy, ctx, selected, dmarc_result, align_in, align_out>>
    /\ UNCHANGED <<discoveryVars, parseVars>>

\* one direct call of an alignment check on the arguments held in align_in
CheckSpfAlignment ==
    /\ align_in # NotCalled
    /\ align_in.check = "spf"
    /\ align_out = None
    /\ align_out' = Some(check_spf_alignment(align_in.self, align_in.from_domain,
                                             align_in.auth_result))
    /\ UNCHANGED <<policy, ctx, selected, dmarc_result, reject, align_in>>
    /\ UNCHANGED <<discoveryVars, parseVars>>

CheckDkimAlignment ==
    /\ align_in # NotCalled
    /\ align_in.check = "dkim"
    /\ align_out = None
    /\ align_out' = Some(check_dkim_alignment(align_in.self, align_in.from_domain,
                                              align_in.auth_result))
    /\ UNCHANGED <<policy, ctx, selected, dmarc_result, reject, align_in>>
    /\ UNCHANGED <<discoveryVars, parseVars>>

\* nothing is evaluated
InitApply ==
    /\ policy = None
    /\ ctx = None
    /\ selected = None
    /\ dmarc_result = None
    /\ reject = None
    /\ align_in = NotCalled
    /\ align_out = None

\* a message is about to be evaluated, with or without a discovered policy
InitApplyCall ==
    /\ policy \in {None} \cup {Some(p) : p \in Policies}
    /\ ctx \in {Some(c) : c \in PolicyContexts}
    /\ selected = None
    /\ dmarc_result = None
    /\ reject = None
    /\ align_in = NotCalled
    /\ align_out = None

\* a direct alignment check is about to be made
InitAlignCall ==
    /\ policy = None
    /\ ctx = None
    /\ selected = None
    /\ dmarc_result = None
    /\ reject = None
    /\ align_in \in
          [check : {"spf"}, self : Policies, from_domain : MailDomains,
           auth_result : SPFResults]
          \cup [check : {"dkim"}, self : Policies, from_domain : MailDomains,
                auth_result : DKIMResults]
    /\ align_out = None

(***************************************************************************)
(* Specifications.                                                         *)
(***************************************************************************)
Init == InitDiscovery /\ InitParse /\ InitApply

\* policy discovery
Next ==
    \/ \E d \in QueryDomains : LoadPolicy(d)
    \/ \E d \in QueryDomains : LoadPolicyNoResolver(d)
    \/ \E resp \in ResolverResponses : DomainLookupCompletes(resp)
    \/ \E resp \in ResolverResponses : RootLookupCompletes(resp)

Spec == Init /\ [][Next]_vars

\* parse_policy on its own
NextParse == ParsePolicy

InitParsing == InitDiscovery /\ InitParseCall /\ InitApply

SpecParse == InitParsing /\ [][NextParse]_vars

\* the alignment checks on their own
NextAlign ==
    \/ CheckSpfAlignment
    \/ CheckDkimAlignment

InitAligning == InitDiscovery /\ InitParse /\ InitAlignCall

SpecAlign == InitAligning /\ [][NextAlign]_vars

\* the decision engine and the result it builds
NextApply ==
    \/ Apply
    \/ NoPolicy
    \/ ShouldReject

InitApplying == InitDiscovery /\ InitParse /\ InitApplyCall

SpecApply == InitApplying /\ [][NextApply]_vars

(***************************************************************************)
(* Properties of policy discovery (checked under Spec).                    *)
(***************************************************************************)
\* the records of the i-th answer as discovery sees them
AnswerRecords(i) == responses[i].records

\* discovery accepts the j-th record of the i-th answer under the rule of
\* the level the i-th lookup was issued for
Accepts(i, j) ==
    /\ starts_with_v(AnswerRecords(i)[j])
    /\ parse_policy(AnswerRecords(i)[j], lookups[i].is_root).kind = "Ok"

ScanPositions ==
    {ij \in (1..Len(responses)) \X (1..MaxRecords + 1) : ij[2] <= Len(AnswerRecords(ij[1]))}

Before(a, b) == a[1] < b[1] \/ (a[1] = b[1] /\ a[2] < b[2])

FirstAccepted(ij) ==
    /\ Accepts(ij[1], ij[2])
    /\ \A other \in ScanPositions : Before(other, ij) => ~Accepts(other[1], other[2])

PolicyAt(ij) == parse_policy(AnswerRecords(ij[1])[ij[2]], lookups[ij[1]].is_root).value

OwnRootDomain == get_root_domain_name(from_domain) = Some(from_domain)

\* C1: the lookup at _dmarc.<root-domain> with is_root = true is issued only
\* when the first level held no valid record, the root domain exists and it
\* differs from the domain queried first; a domain that is its own
\* organizational domain is looked up exactly once.
C1_FallbackOnlyForSubdomain ==
    /\ Len(lookups) = 2 =>
          /\ \A j \in 1..Len(AnswerRecords(1)) : ~Accepts(1, j)
          /\ get_root_domain_name(from_domain) # None
          /\ lookups[2].is_root
          /\ lookups[2].name # lookups[1].name
    /\ OwnRootDomain => Len(lookups) <= 1

\* C2: a transport failure of lookup_txt at either level ends discovery at
\* once with the internal error, with no further lookup and no retry; a
\* "no records found" answer is handled as an empty record list.
C2_TransportFailureAborts ==
    \A i \in 1..Len(responses) :
        /\ responses[i].kind = "TransportError" =>
              /\ pc = "done"
              /\ result.kind = "Err"
              /\ result.err = "UnknownInternalError"
              /\ Len(responses) = i
              /\ Len(lookups) = i
        /\ responses[i].kind = "NoRecordsFound" =>
              IF i = 1 /\ get_root_domain_name(from_domain) # None
              THEN Len(lookups) = 2
              ELSE pc = "done" /\ result = Ok(None)

\* C2 witness: the fallback query failed at transport level and discovery
\* returned the internal error.
C2_Witness ==
    /\ pc = "done"
    /\ Len(responses) = 2
    /\ responses[1].kind = "NoRecordsFound"
    /\ responses[2].kind = "TransportError"
    /\ result.kind = "Err"

AllLookupsSucceeded ==
    /\ pc = "done"
    /\ Len(lookups) >= 1
    /\ \A i \in 1..Len(responses) : responses[i].kind # "TransportError"

\* C3: when every lookup succeeds discovery returns Ok: the policy of the
\* first record, in scan order over the answers received, that starts with
\* "v=" and parses under its level's is_root rule, and Ok(None) exactly when
\* there is no such record; records that fail to parse are skipped, and the
\* scan goes on to the root domain, whose records are parsed with is_root.
C3_RecordContentNeverFails ==
    AllLookupsSucceeded =>
        /\ result.kind = "Ok"
        /\ IF \E ij \in ScanPositions : Accepts(ij[1], ij[2])
           THEN \E ij \in ScanPositions :
                    FirstAccepted(ij) /\ result = Ok(Some(PolicyAt(ij)))
           ELSE result = Ok(None)
        /\ ( /\ \A j \in 1..Len(AnswerRecords(1)) : ~Accepts(1, j)
             /\ get_root_domain_name(from_domain) # None )
           => /\ Len(lookups) = 2
              /\ lookups[2] = Lookup(get_root_domain_name(from_domain)[1], TRUE)

\* C3 witness: a sub-domain whose own answer holds only a record that does
\* not parse gets the policy of its organizational domain, read with the
\* root rule (sp overrides p).
C3_Witness ==
    /\ pc = "done"
    /\ from_domain = <<"sub", "example", "com">>
    /\ Len(responses) = 2
    /\ Len(AnswerRecords(1)) = 1
    /\ starts_with_v(AnswerRecords(1)[1])
    /\ parse_policy(AnswerRecords(1)[1], FALSE).kind = "Err"
    /\ lookups[2].name = <<"_dmarc", "example", "com">>
    /\ result.kind = "Ok"
    /\ result.value # None
    /\ result.value[1].action = "Quarantine"

\* C4: at most two lookups are issued, the one for _dmarc.<domain> first and
\* the one for the root domain only after the first has been answered; when
\* a record of the first answer parses with is_root = false, the first such
\* record in received order is the result and no second lookup is issued.
C4_FirstLevelPrecedence ==
    /\ Len(lookups) <= 2
    /\ Len(responses) <= Len(lookups)
    /\ Len(lookups) >= 1 => lookups[1] = Lookup(from_domain, FALSE)
    /\ Len(lookups) = 2 => Len(responses) >= 1 /\ lookups[2].is_root
    /\ Len(responses) >= 1 =>
          \A j \in 1..Len(AnswerRecords(1)) :
              ( /\ starts_with_v(AnswerRecords(1)[j])
                /\ parse_policy(AnswerRecords(1)[j], FALSE).kind = "Ok"
                /\ \A k \in 1..(j - 1) :
                      ~ ( /\ starts_with_v(AnswerRecords(1)[k])
                          /\ parse_policy(AnswerRecords(1)[k], FALSE).kind = "Ok" ) )
              => /\ result = Ok(Some(parse_policy(AnswerRecords(1)[j], FALSE).value))
                 /\ Len(lookups) = 1
                 /\ pc = "done"

\* C4 witness: a sub-domain whose own answer holds two different valid
\* policies gets the first one, and the root domain is never queried.
C4_Witness ==
    /\ pc = "done"
    /\ from_domain = <<"sub", "example", "com">>
    /\ Len(lookups) = 1
    /\ Len(responses) = 1
    /\ Len(AnswerRecords(1)) = 2
    /\ parse_policy(AnswerRecords(1)[1], FALSE).kind = "Ok"
    /\ parse_policy(AnswerRecords(1)[2], FALSE).kind = "Ok"
    /\ starts_with_v(AnswerRecords(1)[2])
    /\ parse_policy(AnswerRecords(1)[1], FALSE) # parse_policy(AnswerRecords(1)[2], FALSE)
    /\ result = Ok(Some(parse_policy(AnswerRecords(1)[1], FALSE).value))

(***************************************************************************)
(* Properties of parse_policy (checked under SpecParse).                   *)
(***************************************************************************)
ParsedTags == parse_in.record.tags

TagPresent(n) == \E i \in 1..Len(ParsedTags) : ParsedTags[i].name = n

\* the value of the last occurrence of tag n in the record
TagValue(n) ==
    LET at == {i \in 1..Len(ParsedTags) : ParsedTags[i].name = n}
    IN ParsedTags[CHOOSE i \in at : \A j \in at : j <= i].value

\* parse_policy was given a well-formed record whose version is DMARC1
ParsedDmarc1 ==
    /\ parse_out # NotCalled
    /\ parse_in.record.ok
    /\ TagPresent("v")
    /\ TagValue("v") = "DMARC1"

\* the outcome of parse_policy is the one of reading the action from text a
ActionReadFrom(a) ==
    CASE a = "none" -> parse_out.kind = "Ok" /\ parse_out.value.action = "None"
      [] a = "quarantine" -> parse_out.kind = "Ok" /\ parse_out.value.action = "Quarantine"
      [] a = "reject" -> parse_out.kind = "Ok" /\ parse_out.value.action = "Reject"
      [] OTHER -> parse_out.kind = "Err" /\ parse_out.err = "PolicyParseError"

WithoutSp(record) ==
    [record EXCEPT !.tags = SelectSeq(record.tags, LAMBDA t : t.name # "sp")]

\* C6: with is_root = false the action comes from p alone: a missing p is
\* MissingRequiredTag("p") even when sp is present, a p other than "none",
\* "quarantine" or "reject" is a parse error, and the outcome is the one of
\* the same record with every sp tag removed.
C6_NonRootIgnoresSp ==
    (parse_out # NotCalled /\ ~parse_in.is_root) =>
        /\ parse_out = parse_policy(WithoutSp(parse_in.record), FALSE)
        /\ ParsedDmarc1 =>
              IF TagPresent("p")
              THEN ActionReadFrom(TagValue("p"))
              ELSE parse_out = MissingRequiredTag("p")

\* C6 witness: a non-root record with p=none and sp=reject parses to None.
C6_Witness ==
    /\ ParsedDmarc1
    /\ ~parse_in.is_root
    /\ TagPresent("p") /\ TagValue("p") = "none"
    /\ TagPresent("sp") /\ TagValue("sp") = "reject"
    /\ parse_out.kind = "Ok"
    /\ parse_out.value.action = "None"

(***************************************************************************)
(* Properties of the decision engine (checked under SpecApply) and of the  *)
(* alignment checks (checked under SpecAlign).                             *)
(***************************************************************************)
Outcome == dmarc_result[1].value

\* the DKIM check of apply says aligned and the DKIM summary is "pass"
DkimAlignedPass ==
    /\ check_dkim_alignment(policy[1], ctx[1].from_domain, ctx[1].dkim_result)
    /\ ctx[1].dkim_result.summary = "pass"

\* the SPF check of apply says aligned and the SPF value is "pass"
SpfAlignedPass ==
    /\ check_spf_alignment(policy[1], ctx[1].from_domain, ctx[1].spf_result)
    /\ ctx[1].spf_result.value = "pass"

\* C7: for a message the sampling gate selects, apply returns Pass exactly
\* when DKIM is aligned with summary "pass" or SPF is aligned with value
\* "pass", and Fail otherwise; a DKIM result that does not pass never stops
\* an aligned passing SPF result from giving Pass.
C7_PassIffAlignedPass ==
    (policy # None /\ dmarc_result # None /\ selected = Some(TRUE)) =>
        /\ Outcome \in {"Pass", "Fail"}
        /\ Outcome = "Pass" <=> (DkimAlignedPass \/ SpfAlignedPass)

\* C7 witness: DKIM aligned but not passing, SPF aligned and passing: Pass.
C7_Witness ==
    /\ policy # None /\ dmarc_result # None /\ selected = Some(TRUE)
    /\ check_dkim_alignment(policy[1], ctx[1].from_domain, ctx[1].dkim_result)
    /\ ctx[1].dkim_result.summary = "fail"
    /\ SpfAlignedPass
    /\ Outcome = "Pass"

AlignMode ==
    IF align_in.check = "spf" THEN align_in.self.aspf ELSE align_in.self.adkim

\* C8: a Relaxed check is true exactly when both domains parse as valid
\* domains and their root domains are equal, so it is false when either or
\* both fail to parse; a Strict check is true exactly when the two strings
\* are equal.
C8_RelaxedNeedsValidDomains ==
    align_out # None =>
        IF AlignMode = "Relaxed"
        THEN align_out[1] <=>
                /\ ValidDomain(align_in.from_domain)
                /\ ValidDomain(align_in.auth_result.domain_used)
                /\ get_root_domain_name(align_in.from_domain)
                     = get_root_domain_name(align_in.auth_result.domain_used)
        ELSE align_out[1] <=> (align_in.from_domain = align_in.auth_result.domain_used)

\* C9: with pct = 0 apply always returns Neutral, with pct = 100 it never
\* does, and whenever the trial does not select the message the result is
\* Neutral carrying the policy, whatever the authentication results are.
C9_SamplingGate ==
    (policy # None /\ dmarc_result # None) =>
        /\ policy[1].pct = 0 => Outcome = "Neutral"
        /\ policy[1].pct = 100 => Outcome \in {"Pass", "Fail"}
        /\ selected = Some(FALSE) => dmarc_result[1] = DMARCResult_neutral(policy[1])

\* C9 witness: pct = 0 with aligned passing DKIM and SPF still gives Neutral.
C9_Witness ==
    /\ policy # None /\ dmarc_result # None
    /\ policy[1].pct = 0
    /\ DkimAlignedPass
    /\ SpfAlignedPass
    /\ Outcome = "Neutral"

\* C10: should_reject is true exactly when the outcome is Fail and the
\* carried policy's action is Reject; so it is false for None, Neutral and
\* Pass, and a message the sampling did not select is never rejected.
C10_RejectIffFailReject ==
    reject # None =>
        /\ reject[1] <=>
              /\ Outcome = "Fail"
              /\ dmarc_result[1].policy # None
              /\ dmarc_result[1].policy[1].action = "Reject"
        /\ Outcome \in {"None", "Neutral", "Pass"} => ~reject[1]
        /\ selected = Some(FALSE) => ~reject[1]

\* C10 witness: a failing message under p=reject is rejected.
C10_Witness ==
    /\ reject = Some(TRUE)
    /\ Outcome = "Fail"
    /\ policy[1].action = "Reject"
    /\ ~DkimAlignedPass
    /\ ~SpfAlignedPass

(***************************************************************************)
(* Further properties of parse_policy (checked under SpecParse).  Where a  *)
(* tag occurs more than once, its value is the one of its last occurrence. *)
(***************************************************************************)
ParsedWellFormed ==
    /\ parse_out # NotCalled
    /\ parse_in.record.ok

\* C11: on a well-formed tag list a missing v gives MissingRequiredTag("v")
\* and a v other than exactly "DMARC1" gives IncompatibleVersion with that
\* value, whatever p and sp hold; MissingRequiredTag("p"), a parse error or
\* a policy can only be the result when v is exactly "DMARC1".
C11_VersionCheckedFirst ==
    ParsedWellFormed =>
        /\ ~TagPresent("v") => parse_out = MissingRequiredTag("v")
        /\ (TagPresent("v") /\ TagValue("v") # "DMARC1")
              => parse_out = IncompatibleVersion(TagValue("v"))
        /\ ( \/ parse_out.kind = "Ok"
             \/ parse_out = MissingRequiredTag("p")
             \/ (parse_out.kind = "Err" /\ parse_out.err = "PolicyParseError") )
              => (TagPresent("v") /\ TagValue("v") = "DMARC1")

\* C11 witness: v=dmarc1 next to an invalid p is reported as an incompatible
\* version, not as an invalid action.
C11_Witness ==
    /\ ParsedWellFormed
    /\ TagPresent("v") /\ TagValue("v") = "dmarc1"
    /\ TagPresent("p") /\ TagValue("p") = "Reject"
    /\ parse_out = IncompatibleVersion("dmarc1")

WithoutPct(record) ==
    [record EXCEPT !.tags = SelectSeq(record.tags, LAMBDA t : t.name # "pct")]

\* the percentage a pct text stands for: the number it spells when that is
\* a non-negative integer up to 100, and 100 for every other text
ExpectedPct(text) ==
    CASE text = "0" -> 0
      [] text = "67" -> 67
      [] text = "100" -> 100
      [] text \in {"101", "-1", "abc"} -> 100

\* C12: every policy parse_policy returns has pct within 0..100: the number
\* the pct tag spells when it is a non-negative integer up to 100, and 100
\* when it is above 100, negative, not a number or absent; the pct tag never
\* makes parse_policy fail, since the call succeeds or fails exactly as it
\* does on the record without its pct tags.
C12_PctWithinRange ==
    parse_out # NotCalled =>
        /\ parse_out.kind = "Ok" =>
              /\ parse_out.value.pct \in 0..100
              /\ parse_out.value.pct =
                    IF TagPresent("pct") THEN ExpectedPct(TagValue("pct")) ELSE 100
        /\ LET without == parse_policy(WithoutPct(parse_in.record), parse_in.is_root)
           IN IF without.kind = "Ok"
              THEN parse_out.kind = "Ok"
              ELSE parse_out = without

\* C12 witness: pct=101 parses to a policy whose pct is 100.
C12_Witness ==
    /\ ParsedDmarc1
    /\ TagPresent("pct") /\ TagValue("pct") = "101"
    /\ parse_out.kind = "Ok"
    /\ parse_out.value.pct = 100

(***************************************************************************)
(* Further properties of the decision engine (checked under SpecApply).    *)
(***************************************************************************)
\* the result built carries a policy exactly when its outcome is not None,
\* and a result of apply is Neutral, Pass or Fail and carries the policy
\* apply was called on
ResultCarriesPolicy ==
    dmarc_result # None =>
        /\ dmarc_result[1].policy # None <=> Outcome # "None"
        /\ policy # None =>
              /\ Outcome \in {"Neutral", "Pass", "Fail"}
              /\ dmarc_result[1].policy = policy

\* C13: a DMARCResult carries a policy if and only if its outcome is not
\* None; every result of apply is Neutral, Pass or Fail and carries a policy
\* equal, field for field, to the one apply was called on, and no step
\* changes that policy.
C13_ResultCarriesPolicy ==
    /\ []ResultCarriesPolicy
    /\ [][policy' = policy]_vars

\* C13 witness: a Fail result carries the non-default policy it came from.
C13_Witness ==
    /\ dmarc_result # None
    /\ policy # None
    /\ Outcome = "Fail"
    /\ policy[1] = [adkim |-> "Strict", aspf |-> "Strict", action |-> "Quarantine", pct |-> 13]
    /\ dmarc_result[1].policy = policy

(***************************************************************************)
(* Duplicate tags (checked under SpecParse).                               *)
(***************************************************************************)
\* the tag list with every occurrence of a name but its last removed
RECURSIVE KeepLast(_)
KeepLast(tags) ==
    IF tags = <<>> THEN <<>>
    ELSE IF \E i \in 2..Len(tags) : tags[i].name = Head(tags).name
         THEN KeepLast(Tail(tags))
         ELSE <<Head(tags)>> \o KeepLast(Tail(tags))

HasDuplicateTag ==
    \E i, j \in 1..Len(ParsedTags) : i < j /\ ParsedTags[i].name = ParsedTags[j].name

\* C14: when a tag name occurs more than once parse_policy uses its last
\* occurrence only: the result is the one of the record with the earlier
\* occurrences removed, and the version, the alignment modes and the
\* percentage of the result are those of the last v, adkim, aspf and pct.
C14_LastOccurrenceWins ==
    ParsedWellFormed =>
        /\ parse_out = parse_policy([parse_in.record EXCEPT !.tags = KeepLast(ParsedTags)],
                                    parse_in.is_root)
        /\ (TagPresent("v") /\ TagValue("v") # "DMARC1")
              => parse_out = IncompatibleVersion(TagValue("v"))
        /\ (ParsedDmarc1 /\ TagPresent("p") /\ ~TagPresent("sp"))
              => ActionReadFrom(TagValue("p"))
        /\ (ParsedDmarc1 /\ TagPresent("p") /\ TagPresent("sp") /\ parse_in.is_root)
              => ActionReadFrom(TagValue("sp"))
        /\ parse_out.kind = "Ok" =>
              /\ TagPresent("adkim")
                    => parse_out.value.adkim = parse_alignement_mode(TagValue("adkim"))
              /\ TagPresent("aspf")
                    => parse_out.value.aspf = parse_alignement_mode(TagValue("aspf"))
              /\ TagPresent("pct")
                    => parse_out.value.pct = parse_percentage(TagValue("pct"))

\* C14 witness: "v=DMARC1; p=reject; p=none" parses to the action None.
C14_Witness ==
    /\ ParsedWellFormed
    /\ HasDuplicateTag
    /\ ParsedTags = <<Tag("v", "DMARC1"), Tag("p", "reject"), Tag("p", "none")>>
    /\ parse_out.kind = "Ok"
    /\ parse_out.value.action = "None"

====
